---- MODULE Spec2Model ----
(***************************************************************************)
(* Model of event-handler-loader (src/src/index.ts): loadEventHandlers     *)
(* discovers handler modules in a directory, validates each exported       *)
(* candidate and registers a listener for it on an EventEmitter-like       *)
(* target.                                                                 *)
(***************************************************************************)
EXTENDS Integers, Sequences, FiniteSets, TLC

(***************************************************************************)
(* JavaScript values.  A value is a record [t, v]: t is the tag (the       *)
(* typeof class, with null and absent kept apart), v a printable payload.  *)
(***************************************************************************)
JS(t, v) == [t |-> t, v |-> v]

Absent == JS("absent", "")
Undefined == JS("undefined", "")
Null == JS("null", "")
True == JS("boolean", "true")
False == JS("boolean", "false")
Zero == JS("number", "0")
Five == JS("number", "5")
Str(s) == JS("string", s)
Sym(d) == JS("symbol", d)
Obj == JS("object", "{}")
Arr == JS("object", "[]")
Fn(k) == JS("function", k)

\* typeof x
TypeOf(x) ==
    CASE x.t = "null" -> "object"
      [] x.t = "absent" -> "undefined"
      [] OTHER -> x.t

\* ToBoolean(x): what `!x` and `if (x)` test
Truthy(x) ==
    CASE x.t \in {"absent", "undefined", "null"} -> FALSE
      [] x.t = "boolean" -> x.v = "true"
      [] x.t = "number" -> x.v # "0"
      [] x.t = "string" -> x.v # ""
      [] OTHER -> TRUE

\* String(x): the conversion bindEventListener applies to the name value
ToStr(x) ==
    CASE x.t \in {"absent", "undefined"} -> Str("undefined")
      [] x.t = "null" -> Str("null")
      [] x.t \in {"boolean", "number", "string"} -> Str(x.v)
      [] x.t = "symbol" -> Str("Symbol(" \o x.v \o ")")
      [] x.t = "object" -> IF x.v = "[]" THEN Str("") ELSE Str("[object Object]")
      [] OTHER -> Str("function " \o x.v \o "() {}")

\* Properties every plain object inherits from Object.prototype (all functions)
InheritedKeys == {"toString", "valueOf", "constructor"}

\* own property of a candidate (a function from its own keys to values)
Own(obj, key) == IF key \in DOMAIN obj THEN obj[key] ELSE Absent

\* `key in obj`: own or inherited
HasIn(obj, key) == Own(obj, key) # Absent \/ key \in InheritedKeys

\* obj[key]: own value, else the inherited method, else undefined
Get(obj, key) ==
    IF Own(obj, key) # Absent THEN Own(obj, key)
    ELSE IF key \in InheritedKeys THEN Fn("sync")
    ELSE Undefined

(***************************************************************************)
(* Program constants (src/src/index.ts:15-35).                             *)
(***************************************************************************)
DEFAULT_EXPORT_NAME == "default"
EVENT_EMITTER_ADD_LISTENER_METHOD_NAMES ==
    <<"on", "once", "addListener", "prependListener", "prependOnceListener">>
DEFAULT_EVENT_HANDLER_KEY_NAMES ==
    [name |-> Str("name"), isOnce |-> Str("isOnce"),
     isPrepend |-> Str("isPrepend"), execute |-> Str("execute")]
DEFAULT_IMPORT_MODE == Str("concurrent")
DEFAULT_EXPORT_TYPE == Str("default")
DEFAULT_NAMED_EXPORT == Str("eventHandler")
DEFAULT_IMPORT_MODES == <<Str("concurrent"), Str("sequential")>>
DEFAULT_EXPORT_TYPES == <<Str("default"), Str("named")>>

\* Array.prototype.includes
Includes(arr, val) == \E i \in 1..Len(arr) : arr[i] = val

\* Errors: kind, the option / alias / export the message names, and the module
Err(kind, about, file) == [kind |-> kind, about |-> about, file |-> file]
NoErr == Err("none", "", <<>>)

(***************************************************************************)
(* Pure helpers of index.ts.                                               *)
(***************************************************************************)
\* isValidDirectory: lstat succeeded and isDirectory(); a failed lstat is caught
isValidDirectory(kind) == kind = "dir"

isAsyncFunction(fn) == TypeOf(fn) = "function" /\ fn.v \in {"async", "asyncReject"}

\* hasMethod of hasAddListenerMethods; `methods` is the set of properties of the
\* target that are functions (any other property value fails the test)
hasMethod(methods, methodName) == methodName \in methods

hasAddListenerMethods_OnlyOn(methods) == hasMethod(methods, "on")

hasAddListenerMethods(methods) ==
    \A i \in 1..Len(EVENT_EMITTER_ADD_LISTENER_METHOD_NAMES) :
        hasMethod(methods, EVENT_EMITTER_ADD_LISTENER_METHOD_NAMES[i])

getMergedListenerArgs_EmittedFirst(prependedArgs, emittedArgs) ==
    emittedArgs \o prependedArgs

getMergedListenerArgs(prependedArgs, emittedArgs) ==
    IF Len(prependedArgs) > 0 THEN prependedArgs \o emittedArgs ELSE emittedArgs

\* String.prototype.endsWith on file names, which are sequences of characters
EndsWith(file, suffix) ==
    /\ Len(suffix) <= Len(file)
    /\ SubSeq(file, Len(file) - Len(suffix) + 1, Len(file)) = suffix

\* the extension filter at the head of loadEventHandler
IsModuleFile(file) ==
    \/ EndsWith(file, <<".", "j", "s">>)
    \/ EndsWith(file, <<".", "t", "s">>)
    \/ EndsWith(file, <<".", "m", "j", "s">>)
    \/ EndsWith(file, <<"c", "j", "s">>)

(***************************************************************************)
(* Options.  The options argument is a record                              *)
(*   [kind, importMode, exportType, preferredNamedExport,                  *)
(*    listenerPrependedArgs, keys]                                         *)
(* plus isRecursive, a property the loader never reads.                    *)
(* kind is "omitted", "object", "null", "array" or "primitive"; a field    *)
(* the caller did not set is Absent (for listenerPrependedArgs: <<>>).     *)
(* Spreading null, an array or a primitive contributes none of the option  *)
(* keys, so only an object's fields count.                                 *)
(***************************************************************************)
Spread_AlwaysDefault(default, given) == default

\* { ...defaults, ...options }: an own property overrides, even when undefined
Spread(default, given) == IF given = Absent THEN default ELSE given

OptField(options, given) == IF options.kind = "object" THEN given ELSE Absent

\* index.ts:180-186
MergedOptions(options) ==
    [importMode |-> Spread(DEFAULT_IMPORT_MODE, OptField(options, options.importMode)),
     exportType |-> Spread(DEFAULT_EXPORT_TYPE, OptField(options, options.exportType)),
     preferredNamedExport |->
        Spread(DEFAULT_NAMED_EXPORT, OptField(options, options.preferredNamedExport)),
     listenerPrependedArgs |->
        IF options.kind = "object" THEN options.listenerPrependedArgs ELSE <<>>,
     keys |->
        [name |-> Spread(DEFAULT_EVENT_HANDLER_KEY_NAMES.name,
                         OptField(options, options.keys.name)),
         isOnce |-> Spread(DEFAULT_EVENT_HANDLER_KEY_NAMES.isOnce,
                           OptField(options, options.keys.isOnce)),
         isPrepend |-> Spread(DEFAULT_EVENT_HANDLER_KEY_NAMES.isPrepend,
                              OptField(options, options.keys.isPrepend)),
         execute |-> Spread(DEFAULT_EVENT_HANDLER_KEY_NAMES.execute,
                            OptField(options, options.keys.execute))]]

NonEmptyString_AnyString(val) == TypeOf(val) = "string"

NonEmptyString(val) == Truthy(val) /\ TypeOf(val) = "string"

\* index.ts:188-208, the first failing check of the merged options
OptionsError(o) ==
    CASE ~NonEmptyString(o.keys.name) ->
            Err("InvalidOptions", "preferredEventHandlerKeys name", <<>>)
      [] ~NonEmptyString(o.keys.isOnce) ->
            Err("InvalidOptions", "preferredEventHandlerKeys isOnce", <<>>)
      [] ~NonEmptyString(o.keys.isPrepend) ->
            Err("InvalidOptions", "preferredEventHandlerKeys isPrepend", <<>>)
      [] ~NonEmptyString(o.keys.execute) ->
            Err("InvalidOptions", "preferredEventHandlerKeys execute", <<>>)
      [] ~Truthy(o.importMode) \/ ~Includes(DEFAULT_IMPORT_MODES, o.importMode) ->
            Err("InvalidOptions", "import mode", <<>>)
      [] ~Truthy(o.exportType) \/ ~Includes(DEFAULT_EXPORT_TYPES, o.exportType) ->
            Err("InvalidOptions", "export type", <<>>)
      [] ~NonEmptyString(o.preferredNamedExport) ->
            Err("InvalidOptions", "preferred named export", <<>>)
      [] OTHER -> NoErr

(***************************************************************************)
(* bindEventListener (index.ts:91-135) as a function of the candidate: the *)
(* error it throws, or the one registration call it makes.                 *)
(* A candidate is a function from its own property names to values.        *)
(***************************************************************************)
RegistrationMethod_SwappedFlags(isOnceValue, isPrependValue) ==
    IF Truthy(isOnceValue)
    THEN IF Truthy(isPrependValue) THEN "prependOnceListener" ELSE "prependListener"
    ELSE IF Truthy(isPrependValue) THEN "once" ELSE "on"

RegistrationMethod_NeverOnce(isOnceValue, isPrependValue) ==
    IF Truthy(isPrependValue) THEN "prependListener" ELSE "on"

RegistrationMethod_NeverPrepend(isOnceValue, isPrependValue) ==
    IF Truthy(isOnceValue) THEN "once" ELSE "on"

\* index.ts:122-134
RegistrationMethod(isOnceValue, isPrependValue) ==
    IF Truthy(isOnceValue)
    THEN IF Truthy(isPrependValue) THEN "prependOnceListener" ELSE "once"
    ELSE IF Truthy(isPrependValue) THEN "prependListener" ELSE "on"

\* index.ts:105, the event name the listener is registered under
NameValue(moduleExport, nameKeyName) == ToStr(Get(moduleExport, nameKeyName))

\* index.ts:99-120, the first failing check ("none" when the candidate is valid)
ValidationError(moduleExport, keys, fileUrlHref) ==
    LET nameValue == NameValue(moduleExport, keys.name)
        isOnceValue == Get(moduleExport, keys.isOnce)
        isPrependValue == Get(moduleExport, keys.isPrepend)
        executeMethod == Get(moduleExport, keys.execute)
    IN  CASE ~HasIn(moduleExport, keys.name) ->
                Err("MissingProperty", keys.name, fileUrlHref)
          [] ~HasIn(moduleExport, keys.execute) ->
                Err("MissingProperty", keys.execute, fileUrlHref)
          [] ~Truthy(nameValue) \/ TypeOf(nameValue) \notin {"string", "symbol"} ->
                Err("InvalidType", keys.name, fileUrlHref)
          [] Truthy(isOnceValue) /\ TypeOf(isOnceValue) # "boolean" ->
                Err("InvalidType", keys.isOnce, fileUrlHref)
          [] Truthy(isPrependValue) /\ TypeOf(isPrependValue) # "boolean" ->
                Err("InvalidType", keys.isPrepend, fileUrlHref)
          [] TypeOf(executeMethod) # "function" ->
                Err("InvalidType", keys.execute, fileUrlHref)
          [] OTHER -> NoErr

\* index.ts:121-134, the registration call of a valid candidate: the method, the
\* event name and the listener getAsyncAwareListener built (index.ts:75-89)
RegistrationCall(moduleExport, keys, listenerPrependedArgs, src) ==
    LET executeMethod == Get(moduleExport, keys.execute)
    IN  [method |-> RegistrationMethod(Get(moduleExport, keys.isOnce),
                                       Get(moduleExport, keys.isPrepend)),
         ev |-> NameValue(moduleExport, keys.name),
         src |-> src,
         exec |-> executeMethod,
         async |-> isAsyncFunction(executeMethod),
         pre |-> listenerPrependedArgs]

(***************************************************************************)
(* importModule (index.ts:137-165).  A module is [loads, exports]: whether *)
(* import() resolves, and the namespace as the sequence of its exports in  *)
(* enumeration order, each [name, falsy, cand].                            *)
(***************************************************************************)
RECURSIVE NamedExports_WithDefault(_)
NamedExports_WithDefault(exports) ==
    IF exports = <<>> THEN <<>>
    ELSE IF Head(exports).falsy THEN NamedExports_WithDefault(Tail(exports))
    ELSE <<Head(exports)>> \o NamedExports_WithDefault(Tail(exports))

RECURSIVE NamedExports(_)
\* index.ts:141-150: every truthy export that is not the default export
NamedExports(exports) ==
    IF exports = <<>> THEN <<>>
    ELSE LET moduleExport == Head(exports)
         IN  IF moduleExport.falsy \/ moduleExport.name = DEFAULT_EXPORT_NAME
             THEN NamedExports(Tail(exports))
             ELSE <<moduleExport>> \o NamedExports(Tail(exports))

FindExport_AnyExport(exports, exportName) ==
    SelectSeq(exports, LAMBDA e : ~e.falsy)

\* moduleNamespace[exportName] with the hasOwnProperty test of index.ts:154
FindExport(exports, exportName) ==
    SelectSeq(exports, LAMBDA e : e.name = exportName /\ ~e.falsy)

importModule(module, exportType, preferredExportName, fileUrlHref) ==
    LET isNamedExportType == exportType = "named"
        exportName == IF isNamedExportType THEN preferredExportName
                      ELSE DEFAULT_EXPORT_NAME
    IN  IF ~module.loads
        THEN [err |-> Err("ModuleLoad", "", fileUrlHref), exports |-> <<>>]
        ELSE IF isNamedExportType /\ preferredExportName = "*"
        THEN [err |-> NoErr, exports |-> NamedExports(module.exports)]
        ELSE IF FindExport(module.exports, exportName) = <<>>
        THEN [err |-> Err("ExportNotFound", exportName, fileUrlHref), exports |-> <<>>]
        ELSE [err |-> NoErr, exports |-> <<FindExport(module.exports, exportName)[1]>>]

(***************************************************************************)
(* The target: Node's EventEmitter.  Its listeners are kept as one         *)
(* sequence in invocation order; the listeners of one event are the        *)
(* subsequence with that event name.                                       *)
(***************************************************************************)
Listener(call, once) ==
    [ev |-> call.ev, src |-> call.src, exec |-> call.exec, async |-> call.async,
     pre |-> call.pre, once |-> once]

Register_Dedup(ls, call) ==
    IF \E n \in 1..Len(ls) :
          /\ ls[n].ev = call.ev
          /\ ls[n].src.file = call.src.file
          /\ ls[n].src.export = call.src.export
    THEN ls
    ELSE IF call.method \in {"on", "once"}
    THEN Append(ls, Listener(call, call.method = "once"))
    ELSE <<Listener(call, call.method = "prependOnceListener")>> \o ls

\* on / once append, prependListener / prependOnceListener add at the front
Register(ls, call) ==
    CASE call.method = "on" -> Append(ls, Listener(call, FALSE))
      [] call.method = "once" -> Append(ls, Listener(call, TRUE))
      [] call.method = "prependListener" -> <<Listener(call, FALSE)>> \o ls
      [] call.method = "prependOnceListener" -> <<Listener(call, TRUE)>> \o ls

ListenersOf(ls, ev) == SelectSeq(ls, LAMBDA l : l.ev = ev)

listenerCount(ls, ev) == Len(ListenersOf(ls, ev))

(***************************************************************************)
(* Bounds of the model.                                                    *)
(***************************************************************************)
MaxFiles == 2
MaxEmits == 2
MaxLoads == 1
MaxReloads == 2

(***************************************************************************)
(* State.                                                                  *)
(***************************************************************************)
VARIABLES
    dirKind,     \* what dirPath names: "missing", "file" or "dir"
    dirFiles,    \* the listing readdir returns, a sequence of file names
    modules,     \* file name -> module, what import() of the file yields
    methods,     \* the properties of the target that are functions
    options,     \* the options argument
    override,    \* bindEventListenerOverride: "none", or a function: "sync",
                 \* "async", "syncThrow" (throws) or "asyncReject" (rejects)
    pc,          \* loadEventHandlers: "idle", "lstat", "readdir", "running",
                 \* "resolved" (returned true) or "rejected" (threw)
    error,       \* the error the returned promise rejected with
    fstate,      \* per file of the listing, its loadEventHandler call:
                 \* "notStarted", "importing", "awaitOverride", "done", "failed"
    fcands,      \* per file, the candidates the for loop has yet to visit
    ferr,        \* per file, the error its loadEventHandler call threw
    firstFail,   \* index of the first loadEventHandler call to reject, 0 if none
    importLog,   \* the calls of import(), in order: [i, load], file index and load
    listeners,   \* the target's listeners
    regLog,      \* every registration call made on the target, in order
    ovLog,       \* every call of the override, in order
    ovPending,   \* the calls of the override, by their index in ovLog, that
                 \* returned a promise not yet settled
    calls,       \* every invocation of an execute method, in order
    emits,       \* the emissions so far, each [ev, args, threw, before, after]:
                 \* before and after are the target's listeners around it
    loads        \* number of loadEventHandlers calls made

vars == <<dirKind, dirFiles, modules, methods, options, override, pc, error, fstate,
          fcands, ferr, firstFail, importLog, listeners, regLog, ovLog, ovPending,
          calls,
          emits, loads>>

inputs == <<dirKind, dirFiles, modules, methods, options, override>>

\* the options in force once validated (index.ts:181-186)
Opts == MergedOptions(options)
ImportMode == Opts.importMode.v
ExportType == Opts.exportType.v
PreferredNamedExport == Opts.preferredNamedExport.v
Keys == [name |-> Opts.keys.name.v, isOnce |-> Opts.keys.isOnce.v,
         isPrepend |-> Opts.keys.isPrepend.v, execute |-> Opts.keys.execute.v]

NFiles == Len(dirFiles)
Settled(i) == fstate[i] \in {"done", "failed"}
InFlight(i) == fstate[i] \in {"importing", "awaitOverride"}

(***************************************************************************)
(* loadEventHandlers (index.ts:167-240).                                   *)
(***************************************************************************)
\* index.ts:173-208: the checks made once lstat has answered, in order
PrecheckError(kind, targetMethods, opts) ==
    CASE ~isValidDirectory(kind) -> Err("InvalidDirectory", "", <<>>)
      [] ~hasAddListenerMethods(targetMethods) -> Err("InvalidTarget", "", <<>>)
      [] OTHER -> OptionsError(MergedOptions(opts))

IsEmptyListing_Never(eventHandlerFiles) == FALSE

\* index.ts:210
IsEmptyListing(eventHandlerFiles) == Len(eventHandlerFiles) = 0

StartedAtReaddir_All(importMode, n) == 1..n

\* index.ts:232-238: the loadEventHandler calls made before the first suspension:
\* map() calls it on every file, the for loop on the first file only
StartedAtReaddir(importMode, n) == IF importMode = "concurrent" THEN 1..n ELSE {1}

\* index.ts:214-219: a call of loadEventHandler returns at once for a file that is
\* no module file, and otherwise suspends on import()
StartState(file) == IF IsModuleFile(file) THEN "importing" ELSE "done"

RECURSIVE ImportsOf(_, _, _)
\* the calls of import() made by the calls of loadEventHandler on the files
\* lo..hi of `started`, in order
ImportsOf(started, lo, hi) ==
    IF lo > hi THEN <<>>
    ELSE (IF lo \in started /\ IsModuleFile(dirFiles[lo])
          THEN <<[i |-> lo, load |-> loads]>> ELSE <<>>)
         \o ImportsOf(started, lo + 1, hi)

RECURSIVE BindAll_RollsBack(_, _, _, _)
BindAll_RollsBack(exports, file, ls, reg) ==
    IF exports = <<>> THEN [ls |-> ls, reg |-> reg, err |-> NoErr]
    ELSE LET e == Head(exports)
             verr == ValidationError(e.cand, Keys, file)
             call == RegistrationCall(e.cand, Keys, Opts.listenerPrependedArgs,
                                      [file |-> file, export |-> e.name, load |-> loads])
         IN  IF verr # NoErr
             THEN [ls |-> SelectSeq(ls, LAMBDA l : l.src.file # file), reg |-> reg,
                   err |-> verr]
             ELSE BindAll_RollsBack(Tail(exports), file, Register(ls, call),
                                    Append(reg, call))

RECURSIVE BindAll_Scattered(_, _, _, _)
BindAll_Scattered(exports, file, ls, reg) ==
    IF exports = <<>> THEN [ls |-> ls, reg |-> reg, err |-> NoErr]
    ELSE LET e == Head(exports)
             verr == ValidationError(e.cand, Keys, file)
             call == RegistrationCall(e.cand, Keys, Opts.listenerPrependedArgs,
                                      [file |-> file, export |-> e.name, load |-> loads])
         IN  IF verr # NoErr THEN [ls |-> ls, reg |-> reg, err |-> verr]
             ELSE BindAll_Scattered(Tail(exports), file, Register(ls, call),
                                    IF Len(exports) % 2 = 0 THEN <<call>> \o reg
                                    ELSE Append(reg, call))

RECURSIVE BindAll(_, _, _, _)
\* index.ts:220-224 without an override: bind the candidates in order, stopping
\* at the first that bindEventListener rejects
BindAll(exports, file, ls, reg) ==
    IF exports = <<>> THEN [ls |-> ls, reg |-> reg, err |-> NoErr]
    ELSE LET e == Head(exports)
             verr == ValidationError(e.cand, Keys, file)
             call == RegistrationCall(e.cand, Keys, Opts.listenerPrependedArgs,
                                      [file |-> file, export |-> e.name, load |-> loads])
         IN  IF verr # NoErr THEN [ls |-> ls, reg |-> reg, err |-> verr]
             ELSE BindAll(Tail(exports), file, Register(ls, call), Append(reg, call))

OverrideCall_WithoutArgs(e, file) ==
    [src |-> [file |-> file, export |-> e.name, load |-> loads], cand |-> e.cand,
     file |-> file,
     pre |-> <<>>]

\* one call of the override: (target, candidate, module URL, prepended args)
OverrideCall(e, file) ==
    [src |-> [file |-> file, export |-> e.name, load |-> loads], cand |-> e.cand,
     file |-> file,
     pre |-> Opts.listenerPrependedArgs]

RECURSIVE OverrideCalls(_, _)
OverrideCalls(exports, file) ==
    IF exports = <<>> THEN <<>>
    ELSE <<OverrideCall(Head(exports), file)>> \o OverrideCalls(Tail(exports), file)

OverrideIsAsync_Never == FALSE

\* index.ts:225, isAsyncFunction(bindEventListenerOverride)
OverrideIsAsync == override \in {"async", "asyncReject"}

\* a call of the override returns a promise: an async function always does, and
\* so does a regular function that returns one (the note at index.ts:72-73)
OverrideReturnsPromise == override \in {"async", "asyncReject", "syncPromise"}

\* the indices in ovLog of n calls appended to it
NewCalls(n) == (Len(ovLog) + 1)..(Len(ovLog) + n)

\* the call of the override that file i is suspended on at index.ts:226
AwaitedCall(i) ==
    LET own == {k \in ovPending : ovLog[k].src.file = dirFiles[i]
                                   /\ ovLog[k].src.load = loads}
    IN  CHOOSE k \in own : \A j \in own : j <= k

\* the override throws, or the promise it returns rejects
OverrideFails == override \in {"syncThrow", "asyncReject"}

Fail(i, e) ==
    /\ fstate' = [fstate EXCEPT ![i] = "failed"]
    /\ ferr' = [ferr EXCEPT ![i] = e]
    /\ firstFail' = IF firstFail = 0 THEN i ELSE firstFail

Finish(i) ==
    /\ fstate' = [fstate EXCEPT ![i] = "done"]
    /\ UNCHANGED <<ferr, firstFail>>

\* a call of loadEventHandlers; it suspends on lstat (index.ts:173)
Call ==
    /\ pc \in {"idle", "resolved", "rejected"}
    /\ loads < MaxLoads
    /\ \A i \in 1..Len(fstate) : ~InFlight(i)
    /\ pc' = "lstat"
    /\ loads' = loads + 1
    /\ error' = NoErr
    /\ fstate' = <<>>
    /\ fcands' = <<>>
    /\ ferr' = <<>>
    /\ firstFail' = 0
    /\ UNCHANGED <<inputs, importLog, listeners, regLog, ovLog, ovPending, calls, emits>>

\* the caller, its load having resolved, calls loadEventHandlers once more with
\* the same directory, target and options
CallAgain ==
    /\ pc = "resolved"
    /\ loads >= 1
    /\ loads < MaxReloads
    /\ pc' = "lstat"
    /\ loads' = loads + 1
    /\ error' = NoErr
    /\ fstate' = <<>>
    /\ fcands' = <<>>
    /\ ferr' = <<>>
    /\ firstFail' = 0
    /\ UNCHANGED <<inputs, importLog, listeners, regLog, ovLog, ovPending, calls, emits>>

\* lstat answered: index.ts:174-209, up to the suspension on readdir
LstatDone ==
    /\ pc = "lstat"
    /\ LET e == PrecheckError(dirKind, methods, options)
       IN  /\ error' = e
           /\ pc' = IF e = NoErr THEN "readdir" ELSE "rejected"
    /\ UNCHANGED <<inputs, fstate, fcands, ferr, firstFail, importLog, listeners,
                   regLog, ovLog, ovPending, calls, emits, loads>>

\* readdir answered: index.ts:210-236, up to the first suspension of the loop
ReaddirDone ==
    /\ pc = "readdir"
    /\ IF IsEmptyListing(dirFiles)
       THEN /\ pc' = "rejected"
            /\ error' = Err("EmptyDirectory", "", <<>>)
            /\ UNCHANGED <<fstate, fcands, ferr, importLog>>
       ELSE LET started == StartedAtReaddir(ImportMode, NFiles)
            IN  /\ pc' = "running"
                /\ error' = NoErr
                /\ fstate' = [i \in 1..NFiles |->
                                IF i \in started THEN StartState(dirFiles[i])
                                ELSE "notStarted"]
                /\ fcands' = [i \in 1..NFiles |-> <<>>]
                /\ ferr' = [i \in 1..NFiles |-> NoErr]
                /\ importLog' = importLog \o ImportsOf(started, 1, NFiles)
    /\ UNCHANGED <<inputs, firstFail, listeners, regLog, ovLog, ovPending, calls, emits, loads>>

\* import() of file i settled: index.ts:219-230, up to the next suspension
ImportDone(i) ==
    /\ i \in 1..Len(fstate)
    /\ fstate[i] = "importing"
    /\ LET file == dirFiles[i]
           r == importModule(modules[file], ExportType, PreferredNamedExport, file)
           b == BindAll(r.exports, file, listeners, regLog)
       IN  IF r.err # NoErr
           THEN /\ Fail(i, r.err)
                /\ UNCHANGED <<fcands, listeners, regLog, ovLog, ovPending>>
           ELSE IF override = "none"
           THEN /\ listeners' = b.ls
                /\ regLog' = b.reg
                /\ IF b.err # NoErr THEN Fail(i, b.err) ELSE Finish(i)
                /\ UNCHANGED <<fcands, ovLog, ovPending>>
           ELSE IF r.exports = <<>>
           THEN /\ Finish(i)
                /\ UNCHANGED <<fcands, listeners, regLog, ovLog, ovPending>>
           ELSE IF ~OverrideIsAsync /\ override # "syncThrow"
           THEN /\ ovLog' = ovLog \o OverrideCalls(r.exports, file)
                /\ ovPending' = ovPending \cup (IF OverrideReturnsPromise
                                                 THEN NewCalls(Len(r.exports))
                                                 ELSE {})
                /\ Finish(i)
                /\ UNCHANGED <<fcands, listeners, regLog>>
           ELSE IF ~OverrideIsAsync
           THEN /\ ovLog' = Append(ovLog, OverrideCall(Head(r.exports), file))
                /\ Fail(i, Err("Override", "", file))
                /\ UNCHANGED <<fcands, listeners, regLog, ovPending>>
           ELSE /\ ovLog' = Append(ovLog, OverrideCall(Head(r.exports), file))
                /\ ovPending' = ovPending \cup NewCalls(1)
                /\ fcands' = [fcands EXCEPT ![i] = Tail(r.exports)]
                /\ fstate' = [fstate EXCEPT ![i] = "awaitOverride"]
                /\ UNCHANGED <<ferr, firstFail, listeners, regLog>>
    /\ UNCHANGED <<inputs, pc, error, importLog, calls, emits, loads>>

\* the awaited override call of file i settled: index.ts:226-227 and the next
\* round of the for loop
OverrideDone(i) ==
    /\ i \in 1..Len(fstate)
    /\ fstate[i] = "awaitOverride"
    /\ IF OverrideFails
       THEN /\ Fail(i, Err("Override", "", dirFiles[i]))
            /\ ovPending' = ovPending \ {AwaitedCall(i)}
            /\ UNCHANGED <<fcands, ovLog>>
       ELSE IF fcands[i] = <<>>
       THEN /\ Finish(i)
            /\ ovPending' = ovPending \ {AwaitedCall(i)}
            /\ UNCHANGED <<fcands, ovLog>>
       ELSE /\ ovLog' = Append(ovLog, OverrideCall(Head(fcands[i]), dirFiles[i]))
            /\ ovPending' = (ovPending \ {AwaitedCall(i)}) \cup NewCalls(1)
            /\ fcands' = [fcands EXCEPT ![i] = Tail(fcands[i])]
            /\ UNCHANGED <<fstate, ferr, firstFail>>
    /\ UNCHANGED <<inputs, pc, error, importLog, listeners, regLog, calls, emits,
                   loads>>

\* a promise returned by a call of the override that nothing awaits settles on
\* its own (index.ts:229 drops the value the call returns)
OverrideSettles(k) ==
    /\ k \in ovPending
    /\ \A i \in 1..Len(fstate) : fstate[i] = "awaitOverride" => AwaitedCall(i) # k
    /\ ovPending' = ovPending \ {k}
    /\ UNCHANGED <<inputs, pc, error, fstate, fcands, ferr, firstFail, importLog,
                   listeners, regLog, ovLog, calls, emits, loads>>

Advance_SkipsFile(i) ==
    /\ pc = "running"
    /\ ImportMode = "sequential"
    /\ i \in 1..(Len(fstate) - 1)
    /\ fstate[i] = "done"
    /\ fstate[i + 1] = "notStarted"
    /\ fstate' = [fstate EXCEPT ![i + 1] = "done"]
    /\ UNCHANGED <<inputs, pc, error, fcands, ferr, firstFail, importLog, listeners,
                   regLog, ovLog, ovPending, calls, emits, loads>>

\* index.ts:235-237: the for loop goes on to the next file once the awaited call
\* of loadEventHandler has returned
Advance(i) ==
    /\ pc = "running"
    /\ ImportMode = "sequential"
    /\ i \in 1..(Len(fstate) - 1)
    /\ fstate[i] = "done"
    /\ fstate[i + 1] = "notStarted"
    /\ fstate' = [fstate EXCEPT ![i + 1] = StartState(dirFiles[i + 1])]
    /\ importLog' = importLog \o ImportsOf({i + 1}, i + 1, i + 1)
    /\ UNCHANGED <<inputs, pc, error, fcands, ferr, firstFail, listeners, regLog,
                   ovLog, ovPending, calls, emits, loads>>

\* index.ts:233 / 236 / 239: Promise.all or the for loop rejects with the first
\* rejection; the function returns true once every call has returned
Settle ==
    /\ pc = "running"
    /\ \/ /\ firstFail # 0
          /\ pc' = "rejected"
          /\ error' = ferr[firstFail]
       \/ /\ \A i \in 1..Len(fstate) : fstate[i] = "done"
          /\ pc' = "resolved"
          /\ error' = NoErr
    /\ UNCHANGED <<inputs, fstate, fcands, ferr, firstFail, importLog, listeners,
                   regLog, ovLog, ovPending, calls, emits, loads>>

(***************************************************************************)
(* Emission on the target, and the listener getAsyncAwareListener built.   *)
(***************************************************************************)
ListenerOutcome_Swallows(l) == IF l.async THEN "resolved" ELSE "returned"

\* index.ts:77-80 / 83-86: what a call of the listener comes to.  The sync
\* listener returns or throws as execute does; the async listener's promise
\* resolves or rejects as execute's does
ListenerOutcome(l) ==
    CASE l.exec.v = "syncThrow" -> "threw"
      [] l.exec.v = "asyncReject" -> "rejected"
      [] l.async -> "resolved"
      [] OTHER -> "returned"

\* the call of execute a listener makes when invoked with emittedArgs
ExecuteCall(l, listenerEmittedArgs, emitNo) ==
    [src |-> l.src, ev |-> l.ev,
     args |-> getMergedListenerArgs(l.pre, listenerEmittedArgs),
     emit |-> emitNo, outcome |-> ListenerOutcome(l)]

RECURSIVE RemoveFirst(_, _)
RemoveFirst(ls, l) ==
    IF ls = <<>> THEN <<>>
    ELSE IF Head(ls) = l THEN Tail(ls)
    ELSE <<Head(ls)>> \o RemoveFirst(Tail(ls), l)

RECURSIVE EmitLoop(_, _, _, _, _)
\* emit(): invoke a copy of the event's listeners in order; a once listener is
\* removed just before it is invoked; a listener that throws ends the emission
EmitLoop(snapshot, ls, cs, args, emitNo) ==
    IF snapshot = <<>> THEN [ls |-> ls, cs |-> cs, threw |-> FALSE]
    ELSE LET l == Head(snapshot)
             ls1 == IF l.once THEN RemoveFirst(ls, l) ELSE ls
             cs1 == Append(cs, ExecuteCall(l, args, emitNo))
         IN  IF ListenerOutcome(l) = "threw"
             THEN [ls |-> ls1, cs |-> cs1, threw |-> TRUE]
             ELSE EmitLoop(Tail(snapshot), ls1, cs1, args, emitNo)

EmitArgs == {<<"e1", "e2">>, <<"e3">>}

\* the caller emits ev with args on the target, before it calls
\* loadEventHandlers or once the promise it was returned has settled
Emit(ev, args) ==
    /\ pc \in {"idle", "resolved", "rejected"}
    /\ Len(emits) < MaxEmits
    /\ LET r == EmitLoop(ListenersOf(listeners, ev), listeners, calls, args,
                         Len(emits) + 1)
       IN  /\ listeners' = r.ls
           /\ calls' = r.cs
           /\ emits' = Append(emits, [ev |-> ev, args |-> args, threw |-> r.threw,
                                      before |-> listeners, after |-> r.ls])
    /\ UNCHANGED <<inputs, pc, error, fstate, fcands, ferr, firstFail, importLog,
                   regLog, ovLog, ovPending, loads>>

(***************************************************************************)
(* Inputs: directories, modules, targets and options the caller may pass.  *)
(***************************************************************************)
Cand(n, o, p, x) == [name |-> n, isOnce |-> o, isPrepend |-> p, execute |-> x,
                     run |-> Absent]
Export(exportName, cand) == [name |-> exportName, falsy |-> FALSE, cand |-> cand]
Module(exports) == [loads |-> TRUE, exports |-> exports]
BrokenModule == [loads |-> FALSE, exports |-> <<>>]

FileA == <<"a", ".", "j", "s">>
FileB == <<"b", ".", "t", "s">>
FileC == <<"c", ".", "m", "j", "s">>
FileD == <<"d", ".", "c", "j", "s">>
FileN == <<"n", ".", "t", "x", "t">>
FileH == <<"h", ".", "j", "s">>
FileE == <<"e", ".", "j", "s">>
FileF == <<"f", ".", "m", "j", "s">>
FileG == <<"g", ".", "t", "s">>
FileR == <<"r", ".", "j", "s">>
FileT == <<"t", ".", "j", "s">>
\* a subdirectory and a module file inside it
DirS == <<"s", "u", "b">>
FileSubE == <<"s", "u", "b", "/", "e", ".", "j", "s">>
\* a name that ends in "cjs" and has no extension
FileX == <<"x", "c", "j", "s">>
DirFileUniverse == {FileA, FileB, FileC, FileD, FileN}

\* what each file of the universe exports (a namespace enumerates its exports
\* in ascending order of name)
ModuleOf(file) ==
    CASE file = FileA ->
            Module(<<Export("default", Cand(Str("ping"), Absent, Absent, Fn("sync"))),
                     Export("eventHandler", Cand(Str("ping"), True, Absent, Fn("async")))>>)
      [] file = FileB ->
            Module(<<Export("default", Cand(Str("ping"), False, True, Fn("sync"))),
                     Export("eventHandler", Cand(Str("pong"), True, True, Fn("sync"))),
                     Export("zeta", Cand(Str("pong"), Absent, Absent, Fn("async")))>>)
      [] file = FileC ->
            Module(<<Export("alpha", Cand(Str("ping"), Absent, Absent, Fn("sync"))),
                     Export("eventHandler", Cand(Str("ping"), Absent, Absent, Absent))>>)
      [] file \in {FileE, FileSubE} ->
            Module(<<Export("onPing", Cand(Str("ping"), Absent, Absent, Fn("sync")))>>)
      [] file = FileF ->
            Module(<<Export("onPong", Cand(Str("pong"), True, Absent, Fn("async")))>>)
      [] file = FileG ->
            Module(<<[name |-> "disabled", falsy |-> TRUE,
                      cand |-> Cand(Absent, Absent, Absent, Absent)],
                     Export("onPing", Cand(Str("ping"), Absent, True, Fn("sync")))>>)
      [] file = FileR ->
            Module(<<Export("default",
                            [Cand(Str("ping"), Absent, Absent, Absent)
                                EXCEPT !.run = Fn("sync")])>>)
      [] file = FileT ->
            Module(<<Export("default",
                            Cand(Str("ping"), Absent, Absent, Fn("syncThrow"))),
                     Export("eventHandler",
                            Cand(Str("pong"), Absent, Absent, Fn("asyncReject"))),
                     Export("zeta",
                            Cand(Str("ping"), True, Absent, Fn("syncThrow")))>>)
      [] OTHER -> BrokenModule

RECURSIVE Listings(_)
\* the sequences of at most n distinct files of the universe
Listings(n) ==
    IF n = 0 THEN {<<>>}
    ELSE Listings(n - 1) \cup
         {Append(l, f) : l \in {m \in Listings(n - 1) : Len(m) = n - 1},
                         f \in DirFileUniverse}

Range(seq) == {seq[i] : i \in 1..Len(seq)}
NoRepeats(seq) == Cardinality(Range(seq)) = Len(seq)

AllMethods == Range(EVENT_EMITTER_ADD_LISTENER_METHOD_NAMES)
TargetMethodSets == {AllMethods} \cup {AllMethods \ {m} : m \in AllMethods} \cup {{}}

NoKeys == [name |-> Absent, isOnce |-> Absent, isPrepend |-> Absent, execute |-> Absent]
OptionsObject(mode, type, named, pre, keys) ==
    [kind |-> "object", importMode |-> mode, exportType |-> type,
     preferredNamedExport |-> named, listenerPrependedArgs |-> pre, keys |-> keys,
     isRecursive |-> Absent]
OptionsOmitted ==
    [kind |-> "omitted", importMode |-> Absent, exportType |-> Absent,
     preferredNamedExport |-> Absent, listenerPrependedArgs |-> <<>>, keys |-> NoKeys,
     isRecursive |-> Absent]

\* a listener the caller registered with on() before the load
PreListener ==
    [ev |-> Str("ping"), src |-> [file |-> <<>>, export |-> "pre", load |-> 0],
     exec |-> Fn("sync"),
     async |-> FALSE, pre |-> <<>>, once |-> FALSE]

Idle ==
    /\ pc = "idle"
    /\ error = NoErr
    /\ fstate = <<>>
    /\ fcands = <<>>
    /\ ferr = <<>>
    /\ firstFail = 0
    /\ importLog = <<>>
    /\ regLog = <<>>
    /\ ovLog = <<>>
    /\ ovPending = {}
    /\ calls = <<>>
    /\ emits = <<>>
    /\ loads = 0

DocumentedOptions ==
    {OptionsOmitted} \cup
    {OptionsObject(mode, policy[1], policy[2], pre, NoKeys) :
        mode \in {Absent, Str("sequential")},
        policy \in {<<Absent, Absent>>, <<Str("named"), Absent>>,
                    <<Str("named"), Str("*")>>},
        pre \in {<<>>, <<"p1", "p2">>}}

\* directories of the universe's files, loaded on an EventEmitter
InitDirectories ==
    /\ dirKind \in {"missing", "file", "dir"}
    /\ dirFiles \in {l \in Listings(MaxFiles) : NoRepeats(l)}
    /\ dirKind # "dir" => dirFiles = <<>>
    /\ modules = [f \in Range(dirFiles) |-> ModuleOf(f)]
    /\ methods = AllMethods
    /\ options \in DocumentedOptions
    /\ override \in {"none", "sync", "async"}
    /\ listeners = <<>>
    /\ Idle

EmitterListings ==
    {<<FileA>>, <<FileB>>, <<FileA, FileB>>, <<FileB, FileA>>, <<FileB, FileC>>,
     <<FileT>>, <<FileA, FileT>>}

\* directories whose handlers the caller goes on to emit events for, on an
\* EventEmitter that may already have a listener
InitEmitters ==
    /\ dirKind = "dir"
    /\ dirFiles \in EmitterListings
    /\ modules = [f \in Range(dirFiles) |-> ModuleOf(f)]
    /\ methods = AllMethods
    /\ options \in DocumentedOptions
    /\ override \in {"none", "async"}
    /\ listeners \in {<<>>, <<PreListener>>}
    /\ Idle

\* targets that lack one or all of the registration methods
InitTargets ==
    /\ dirKind \in {"missing", "file", "dir"}
    /\ dirFiles \in {<<>>, <<FileA>>, <<FileB, FileA>>}
    /\ dirKind # "dir" => dirFiles = <<>>
    /\ modules = [f \in Range(dirFiles) |-> ModuleOf(f)]
    /\ methods \in TargetMethodSets \ {AllMethods}
    /\ options \in {OptionsOmitted,
                    OptionsObject(Str("sequential"), Str("named"), Str("*"), <<>>, NoKeys)}
    /\ override \in {"none", "sync"}
    /\ listeners = <<>>
    /\ Idle

\* directories of modules that have named exports only, loaded whole
NamedListings ==
    {<<FileE>>, <<FileE, FileF>>, <<FileF, FileG>>, <<FileG, FileE, FileF>>,
     <<FileA, FileE>>, <<FileR>>, <<FileR, FileE>>}

InitNamed ==
    /\ dirKind = "dir"
    /\ dirFiles \in NamedListings
    /\ modules = [f \in Range(dirFiles) |-> ModuleOf(f)]
    /\ methods = AllMethods
    /\ options \in {OptionsObject(mode, Str("named"), Str("*"), <<>>, NoKeys) :
                        mode \in {Absent, Str("sequential")}}
    /\ override = "none"
    /\ listeners \in {<<>>, <<PreListener>>}
    /\ Idle

\* what import() of the extensionless file may yield
ExtensionlessModules ==
    {BrokenModule,
     Module(<<Export("default", Cand(Str("ping"), Absent, Absent, Fn("sync")))>>)}

\* directories with entries that are no module files
InitExtensions ==
    /\ dirKind = "dir"
    /\ dirFiles \in {<<FileN>>, <<FileX>>, <<FileN, FileX>>, <<FileN, FileD>>,
                      <<FileN, FileA>>}
    /\ \E m \in ExtensionlessModules :
          modules = [f \in Range(dirFiles) |-> IF f = FileX THEN m ELSE ModuleOf(f)]
    /\ methods = AllMethods
    /\ options \in {OptionsOmitted,
                    OptionsObject(Str("sequential"), Absent, Absent, <<>>, NoKeys)}
    /\ override = "none"
    /\ listeners = <<>>
    /\ Idle

\* option values the checks of index.ts:188-208 are there to refuse
BadOptionValues == {Undefined, Null, Str(""), Five, Str("parallel")}

OptionRoles == {"importMode", "exportType", "preferredNamedExport",
                "name", "isOnce", "isPrepend", "execute"}

\* an options object that sets the options of `roles` to val and no other
OptionsWith(roles, val) ==
    LET pick(role) == IF role \in roles THEN val ELSE Absent
    IN  OptionsObject(pick("importMode"), pick("exportType"),
                      pick("preferredNamedExport"), <<>>,
                      [name |-> pick("name"), isOnce |-> pick("isOnce"),
                       isPrepend |-> pick("isPrepend"), execute |-> pick("execute")])

\* an options argument that is no object: null, an array or a primitive
OptionsNonObject(kind) == [OptionsOmitted EXCEPT !.kind = kind]

\* loads with one or two option values of the wrong kind, or with an options
\* argument that is no object
InitOptions ==
    /\ dirKind \in {"dir", "missing"}
    /\ dirFiles = IF dirKind = "dir" THEN <<FileA>> ELSE <<>>
    /\ modules = [f \in Range(dirFiles) |-> ModuleOf(f)]
    /\ methods \in {AllMethods, AllMethods \ {"once"}}
    /\ \/ \E role \in OptionRoles, val \in BadOptionValues :
             options \in {OptionsWith({role}, val), OptionsWith({role, "importMode"}, val)}
       \/ \E kind \in {"null", "array", "primitive"} : options = OptionsNonObject(kind)
    /\ override \in {"none", "sync"}
    /\ listeners = <<>>
    /\ Idle

\* loads with an override that throws or rejects
InitOverrides ==
    /\ dirKind = "dir"
    /\ dirFiles \in {<<FileA>>, <<FileA, FileB>>, <<FileC, FileA>>, <<FileD, FileB>>}
    /\ modules = [f \in Range(dirFiles) |-> ModuleOf(f)]
    /\ methods = AllMethods
    /\ options \in DocumentedOptions
    /\ override \in {"syncThrow", "asyncReject"}
    /\ listeners = <<>>
    /\ Idle

\* overrides of every kind, a regular function that returns a promise among them
InitAwait ==
    /\ dirKind = "dir"
    /\ dirFiles \in {<<FileA>>, <<FileA, FileB>>, <<FileB, FileC>>, <<FileD, FileA>>,
                      <<FileR, FileE>>}
    /\ modules = [f \in Range(dirFiles) |-> ModuleOf(f)]
    /\ methods = AllMethods
    /\ options \in DocumentedOptions
    /\ override \in {"sync", "async", "asyncReject", "syncPromise"}
    /\ listeners = <<>>
    /\ Idle

\* key alias maps that leave out any subset of the four roles
KeySubsets ==
    {[name |-> n, isOnce |-> o, isPrepend |-> p, execute |-> x] :
        n \in {Absent, Str("name")}, o \in {Absent, Str("isOnce")},
        p \in {Absent, Str("isPrepend")}, x \in {Absent, Str("execute"), Str("run")}}

InitKeySubsets ==
    /\ dirKind = "dir"
    /\ dirFiles \in {<<FileA>>, <<FileR>>}
    /\ modules = [f \in Range(dirFiles) |-> ModuleOf(f)]
    /\ methods = AllMethods
    /\ options \in {OptionsObject(Absent, Absent, Absent, <<>>, keys) : keys \in KeySubsets}
    /\ override = "none"
    /\ listeners = <<>>
    /\ Idle

\* loads that ask for one named export by its name
InitExports ==
    /\ dirKind = "dir"
    /\ dirFiles \in {<<FileA>>, <<FileB>>, <<FileA, FileB>>, <<FileC, FileE>>, <<FileG>>}
    /\ modules = [f \in Range(dirFiles) |-> ModuleOf(f)]
    /\ methods = AllMethods
    /\ options \in {OptionsObject(mode, Str("named"), Str(named), <<>>, NoKeys) :
                        mode \in {Absent, Str("sequential")},
                        named \in {"zeta", "alpha", "default", "disabled",
                                   "uniqueEventHandler"}}
    /\ override \in {"none", "sync"}
    /\ listeners = <<>>
    /\ Idle

\* a directory with a module file and a subdirectory that holds another;
\* readdir lists the entries of the directory itself (index.ts:209)
InitNested ==
    /\ dirKind = "dir"
    /\ dirFiles \in {<<FileA, DirS>>, <<DirS, FileB>>, <<DirS>>}
    /\ modules = [f \in (Range(dirFiles) \ {DirS}) \cup {FileSubE} |-> ModuleOf(f)]
    /\ methods = AllMethods
    /\ \E mode \in {Absent, Str("sequential")}, rec \in {Absent, False, True} :
          options = [OptionsObject(mode, Absent, Absent, <<>>, NoKeys)
                        EXCEPT !.isRecursive = rec]
    /\ override = "none"
    /\ listeners = <<>>
    /\ Idle

\* directories the caller loads twice
InitReload ==
    /\ dirKind = "dir"
    /\ dirFiles \in {<<FileA>>, <<FileA, FileB>>, <<FileB, FileC>>, <<FileE, FileF>>}
    /\ modules = [f \in Range(dirFiles) |-> ModuleOf(f)]
    /\ methods = AllMethods
    /\ options \in DocumentedOptions
    /\ override \in {"none", "async"}
    /\ listeners \in {<<>>, <<PreListener>>}
    /\ Idle

NameValues == {Absent, Undefined, Null, Str(""), Str("ping"), Five, True, Sym("ping"),
               Obj, Arr}
OnceValues == {Absent, Undefined, Null, True, False, Zero, Five, Str(""), Str("yes")}
PrependValues == {Absent, True, False, Zero, Str("yes")}
ExecuteValues == {Absent, Fn("sync"), Fn("async"), Str("ping")}
KeyAliases ==
    {[NoKeys EXCEPT !.name = Str("toString")],
     [NoKeys EXCEPT !.isOnce = Str("constructor")],
     [NoKeys EXCEPT !.execute = Str("valueOf")]}

HandlerDirectory(cand, keys) ==
    /\ dirKind = "dir"
    /\ dirFiles = <<FileH>>
    /\ modules = [f \in {FileH} |-> Module(<<Export("default", cand)>>)]
    /\ methods = AllMethods
    /\ options = OptionsObject(Absent, Absent, Absent, <<"p1">>, keys)
    /\ override = "none"
    /\ listeners = <<>>
    /\ Idle

\* one module with one default export of any shape, under the default key names
InitHandlers ==
    \E n \in NameValues, o \in OnceValues, p \in PrependValues, x \in ExecuteValues :
        HandlerDirectory(Cand(n, o, p, x), NoKeys)

\* the same under key names that plain objects inherit
InitAliases ==
    \E n \in {Absent, Str("ping")}, o \in {Absent, True}, x \in {Absent, Fn("sync")},
       keys \in KeyAliases :
        HandlerDirectory(Cand(n, o, Absent, x), keys)

Init == InitEmitters \/ InitHandlers \/ InitAliases

InitLoad ==
    \/ InitDirectories
    \/ InitTargets
    \/ InitNamed
    \/ InitExtensions
    \/ InitOptions
    \/ InitOverrides
    \/ InitKeySubsets
    \/ InitExports
    \/ InitNested

\* the caller emits events that have, or had, listeners
EmitEvents == {l.ev : l \in Range(listeners)} \cup {e.ev : e \in Range(emits)}

\* the steps of loadEventHandlers
NextLoad ==
    \/ Call
    \/ LstatDone
    \/ ReaddirDone
    \/ \E i \in 1..Len(fstate) : ImportDone(i)
    \/ \E i \in 1..Len(fstate) : OverrideDone(i)
    \/ \E i \in 1..Len(fstate) : Advance(i)
    \/ Settle

Next ==
    \/ NextLoad
    \/ \E ev \in EmitEvents, args \in EmitArgs : Emit(ev, args)

\* loads and emissions
Spec == Init /\ [][Next]_vars

\* loads alone, over every directory, target and documented option
SpecLoad == InitLoad /\ [][NextLoad]_vars

NextReload == NextLoad \/ CallAgain

\* a load repeated on the same directory, target and options
SpecReload == InitReload /\ [][NextReload]_vars

NextOverride ==
    \/ NextLoad
    \/ \E k \in ovPending : OverrideSettles(k)

\* loads that hand every candidate to an override
SpecOverride == InitAwait /\ [][NextOverride]_vars

(***************************************************************************)
(* Properties.                                                             *)
(***************************************************************************)
\* the candidate a registration or a listener came from
CandOf(src) ==
    (CHOOSE e \in Range(modules[src.file].exports) : e.name = src.export).cand

Loaded(src) == src.load > 0

RegsOf(src) == {k \in 1..Len(regLog) : regLog[k].src = src}

\* the candidates loadEventHandler extracts from file i
ExportsOfFile(i) ==
    importModule(modules[dirFiles[i]], ExportType, PreferredNamedExport,
                 dirFiles[i]).exports

IsTrue(val) == val = True

\* the table of spec section 4.4
ExpectedMethod(once, prepend) ==
    CASE once /\ prepend -> "prependOnceListener"
      [] once /\ ~prepend -> "once"
      [] ~once /\ prepend -> "prependListener"
      [] OTHER -> "on"

ExpectedMethodOf(src) ==
    ExpectedMethod(IsTrue(Get(CandOf(src), Keys.isOnce)),
                   IsTrue(Get(CandOf(src), Keys.isPrepend)))

\* C1: every candidate bindEventListener accepted has exactly one registration
\* call, and every registration call is the one the table of the two flags
\* gives: both true -> prependOnceListener, once only -> once, prepend only ->
\* prependListener, neither -> on.
C1_OneRegistrationByFlags ==
    /\ \A k \in 1..Len(regLog) : regLog[k].method = ExpectedMethodOf(regLog[k].src)
    /\ \A i \in 1..Len(fstate) :
          (override = "none" /\ Settled(i) /\ IsModuleFile(dirFiles[i])) =>
             \A j \in 1..Len(ExportsOfFile(i)) :
                LET src == [file |-> dirFiles[i], export |-> ExportsOfFile(i)[j].name,
                            load |-> loads]
                    accepted == \A h \in 1..j :
                        ValidationError(ExportsOfFile(i)[h].cand, Keys, dirFiles[i]) = NoErr
                IN  accepted => Cardinality(RegsOf(src)) = 1

\* a load that made a once, a prependOnceListener and an on registration, each
\* for a different candidate
C1_Witness ==
    /\ pc = "resolved"
    /\ {"once", "prependOnceListener", "on"} \subseteq
          {regLog[k].method : k \in 1..Len(regLog)}
    /\ \A k \in 1..Len(regLog) : Cardinality(RegsOf(regLog[k].src)) = 1

\* C2: every call of execute receives the configured prepended arguments
\* followed by the arguments of the emission that caused it, and nothing else,
\* whatever was emitted before.
C2_PrependedThenEmitted ==
    \A k \in 1..Len(calls) :
        Loaded(calls[k].src) =>
            calls[k].args = Opts.listenerPrependedArgs \o emits[calls[k].emit].args

\* the same listener invoked by two emissions with different arguments, with
\* two prepended arguments configured
C2_Witness ==
    /\ Len(Opts.listenerPrependedArgs) = 2
    /\ \E k, m \in 1..Len(calls) :
          /\ calls[k].src = calls[m].src
          /\ Loaded(calls[k].src)
          /\ calls[k].emit = 1
          /\ calls[m].emit = 2
          /\ emits[1].args # emits[2].args

\* C3: in sequential mode a file's loadEventHandler call does not start before
\* the previous file's call has returned, so files are imported, and listeners
\* registered, in the order of the listing.
C3_SequentialInListingOrder ==
    (pc \in {"running", "resolved", "rejected"} /\ Len(fstate) > 0
        /\ ImportMode = "sequential") =>
       /\ \A i \in 1..(Len(fstate) - 1) :
             fstate[i + 1] # "notStarted" => fstate[i] = "done"
       /\ Cardinality({i \in 1..Len(fstate) : InFlight(i)}) <= 1
       /\ \A k, m \in 1..Len(importLog) :
             (k < m /\ importLog[k].load = loads /\ importLog[m].load = loads) =>
                importLog[k].i < importLog[m].i
       /\ \A k, m \in 1..Len(regLog) :
             (k < m /\ regLog[k].src.load = loads /\ regLog[m].src.load = loads) =>
                \E i, j \in 1..Len(dirFiles) :
                    /\ i <= j
                    /\ dirFiles[i] = regLog[k].src.file
                    /\ dirFiles[j] = regLog[m].src.file

\* a sequential load of two module files that registered listeners of both
C3_Witness ==
    /\ ImportMode = "sequential"
    /\ pc = "resolved"
    /\ Len(importLog) = 2
    /\ importLog[1].i = 1
    /\ \E k, m \in 1..Len(regLog) :
          /\ k < m
          /\ regLog[k].src.file = dirFiles[1]
          /\ regLog[m].src.file = dirFiles[2]

\* C4: a load of a path that does not exist, is a file, or is a directory
\* without entries never gets past its checks: it can only reject, and it
\* imports no module and registers no listener.
C4_BadDirectoryRejects ==
    (dirKind \in {"missing", "file"} \/ dirFiles = <<>>) =>
       /\ pc \in {"idle", "lstat", "readdir", "rejected"}
       /\ pc = "readdir" => dirKind = "dir"
       /\ pc = "rejected" => error.kind \in {"InvalidDirectory", "InvalidTarget",
                                             "InvalidOptions", "EmptyDirectory"}
       /\ importLog = <<>>
       /\ regLog = <<>>
       /\ ovLog = <<>>
       /\ \A k \in 1..Len(listeners) : ~Loaded(listeners[k].src)

\* the load of an empty directory rejected after readdir
C4_Witness ==
    /\ dirKind = "dir"
    /\ dirFiles = <<>>
    /\ pc = "rejected"
    /\ error.kind = "EmptyDirectory"

\* C5: with a target lacking one of on, once, addListener, prependListener,
\* prependOnceListener the load rejects before readdir is called, before any
\* import and before any registration.
C5_BadTargetRejectsEarly ==
    ~({"on", "once", "addListener", "prependListener", "prependOnceListener"}
         \subseteq methods) =>
       /\ pc \in {"idle", "lstat", "rejected"}
       /\ pc = "rejected" => error.kind \in {"InvalidDirectory", "InvalidTarget"}
       /\ fstate = <<>>
       /\ importLog = <<>>
       /\ regLog = <<>>
       /\ ovLog = <<>>
       /\ listeners = <<>>

\* a load of a directory of modules rejected because the target has every
\* method but addListener
C5_Witness ==
    /\ methods = {"on", "once", "prependListener", "prependOnceListener"}
    /\ dirKind = "dir"
    /\ dirFiles # <<>>
    /\ pc = "rejected"
    /\ error.kind = "InvalidTarget"

\* candidate j of file i is one the for loop of loadEventHandler reached: the
\* import succeeded and bindEventListener accepted every candidate before it
Reached(i, j) ==
    /\ override = "none"
    /\ Settled(i)
    /\ IsModuleFile(dirFiles[i])
    /\ j \in 1..Len(ExportsOfFile(i))
    /\ \A h \in 1..(j - 1) :
          ValidationError(ExportsOfFile(i)[h].cand, Keys, dirFiles[i]) = NoErr

SrcOf(i, j) ==
    [file |-> dirFiles[i], export |-> ExportsOfFile(i)[j].name, load |-> loads]

\* the load of file i failed on its candidate j, the one left unregistered
FailedAt(i, j) ==
    Reached(i, j) /\ fstate[i] = "failed" /\ RegsOf(SrcOf(i, j)) = {}

MissingAliases(cand) ==
    {k \in {Keys.name, Keys.execute} : Own(cand, k) = Absent}

\* C6 (as claimed): a candidate without an own property under the name alias or
\* the execute alias makes its load fail with an error naming a missing alias
\* and the module; a candidate without isOnce / isPrepend never fails because
\* of that and is registered as neither once nor prepended.
C6_MissingNameOrExecuteFails ==
    \A i \in 1..Len(fstate) : \A j \in 1..3 :
        Reached(i, j) =>
            LET cand == ExportsOfFile(i)[j].cand
                regs == {regLog[k].method : k \in RegsOf(SrcOf(i, j))}
            IN  /\ MissingAliases(cand) # {} =>
                      /\ fstate[i] = "failed"
                      /\ ferr[i].kind = "MissingProperty"
                      /\ ferr[i].about \in MissingAliases(cand)
                      /\ ferr[i].file = dirFiles[i]
                /\ Own(cand, Keys.isOnce) = Absent =>
                      /\ FailedAt(i, j) => ferr[i].about # Keys.isOnce
                      /\ regs \subseteq {"on", "prependListener"}
                /\ Own(cand, Keys.isPrepend) = Absent =>
                      /\ FailedAt(i, j) => ferr[i].about # Keys.isPrepend
                      /\ regs \subseteq {"on", "once"}

NonEmptyStringOrSymbol(val) ==
    \/ val.t = "string" /\ val.v # ""
    \/ val.t = "symbol"

\* C7 (as claimed): a candidate whose own value under the name alias is there
\* and is not a non-empty string or a symbol is rejected with an invalid-type error and no
\* listener is registered for it.
C7_BadNameRejected ==
    \A i \in 1..Len(fstate) : \A j \in 1..3 :
        (/\ Reached(i, j)
         /\ Own(ExportsOfFile(i)[j].cand, Keys.name).t \notin {"absent", "undefined"}
         /\ Own(ExportsOfFile(i)[j].cand, Keys.execute) # Absent
         /\ ~NonEmptyStringOrSymbol(Own(ExportsOfFile(i)[j].cand, Keys.name))) =>
            /\ fstate[i] = "failed"
            /\ ferr[i].kind = "InvalidType"
            /\ RegsOf(SrcOf(i, j)) = {}

\* a flag value that is there and is no boolean
PresentNonBoolean(val) == val.t \notin {"absent", "undefined", "boolean"}

\* C8 (as claimed): a candidate, otherwise valid, with a present non-boolean
\* value under the isOnce or the isPrepend alias (falsy ones such as 0, "" and
\* null included) makes its load fail with an invalid-type error.
C8_NonBooleanFlagRejected ==
    \A i \in 1..Len(fstate) : \A j \in 1..3 :
        (/\ Reached(i, j)
         /\ Own(ExportsOfFile(i)[j].cand, Keys.name) = Str("ping")
         /\ Own(ExportsOfFile(i)[j].cand, Keys.execute).t = "function"
         /\ \/ PresentNonBoolean(Own(ExportsOfFile(i)[j].cand, Keys.isOnce))
            \/ PresentNonBoolean(Own(ExportsOfFile(i)[j].cand, Keys.isPrepend))) =>
            /\ fstate[i] = "failed"
            /\ ferr[i].kind = "InvalidType"
            /\ ferr[i].about \in {Keys.isOnce, Keys.isPrepend}
            /\ RegsOf(SrcOf(i, j)) = {}

OnceSrc(src) == Loaded(src) /\ IsTrue(Get(CandOf(src), Keys.isOnce))
PrependSrc(src) == Loaded(src) /\ IsTrue(Get(CandOf(src), Keys.isPrepend))

\* the listeners of the emitted event when emission k began
HeardBy(k) == ListenersOf(emits[k].before, emits[k].ev)

RegisteredBefore(src1, src2) ==
    /\ Loaded(src2)
    /\ \/ ~Loaded(src1)
       \/ \E a, b \in 1..Len(regLog) :
             a < b /\ regLog[a].src = src1 /\ regLog[b].src = src2

\* C10: within an emission, an isPrepend handler is invoked before every
\* listener of the same event that was registered before it without isPrepend,
\* the listeners the target had before the load included.
C10_PrependedRunsFirst ==
    \A k \in 1..Len(emits) : \A n, m \in 1..Len(HeardBy(k)) :
        (/\ ~emits[k].threw
         /\ PrependSrc(HeardBy(k)[n].src)
         /\ ~PrependSrc(HeardBy(k)[m].src)
         /\ RegisteredBefore(HeardBy(k)[m].src, HeardBy(k)[n].src)) =>
            \E c, d \in 1..Len(calls) :
                /\ c < d
                /\ calls[c].emit = k /\ calls[c].src = HeardBy(k)[n].src
                /\ calls[d].emit = k /\ calls[d].src = HeardBy(k)[m].src

\* an emission heard by a listener the target already had and by an isPrepend
\* handler loaded after it, which ran first
C10_Witness ==
    \E k \in 1..Len(emits) :
        /\ Len(HeardBy(k)) >= 2
        /\ \E n, m \in 1..Len(HeardBy(k)) :
              /\ PrependSrc(HeardBy(k)[n].src)
              /\ ~Loaded(HeardBy(k)[m].src)
        /\ \E c \in 1..Len(calls) :
              /\ calls[c].emit = k
              /\ PrependSrc(calls[c].src)
              /\ calls[c + 1].emit = k
              /\ ~Loaded(calls[c + 1].src)

\* the truthy named exports of the module of a file
TruthyNamedExports(file) ==
    {e \in Range(modules[file].exports) : ~e.falsy /\ e.name # DEFAULT_EXPORT_NAME}

ModuleFiles == {f \in Range(dirFiles) : IsModuleFile(f)}

\* the registration calls of the current load
RegsOfLoad == {k \in 1..Len(regLog) : regLog[k].src.load = loads}

\* the listeners the current load added to the target
NewListeners == {k \in 1..Len(listeners) : listeners[k].src.load = loads}

\* C11: a load with export type "named" and preferred export "*" that resolves
\* has bound every truthy named export of every module exactly once, the
\* default export never; over N modules with one named handler each and no
\* default export the target has exactly N new listeners.
C11_EveryNamedExportBoundOnce ==
    (/\ pc = "resolved"
     /\ ExportType = "named"
     /\ PreferredNamedExport = "*"
     /\ override = "none"
     /\ \A f \in ModuleFiles : modules[f].loads) =>
        /\ \A f \in ModuleFiles : \A e \in TruthyNamedExports(f) :
              Cardinality(RegsOf([file |-> f, export |-> e.name, load |-> loads])) = 1
        /\ \A k \in RegsOfLoad :
              \E e \in TruthyNamedExports(regLog[k].src.file) : e.name = regLog[k].src.export
        /\ Cardinality(NewListeners) = Cardinality(RegsOfLoad)
        /\ (\A f \in ModuleFiles :
               /\ Cardinality(TruthyNamedExports(f)) = 1
               /\ \A e \in Range(modules[f].exports) : e.name # DEFAULT_EXPORT_NAME)
              => Cardinality(NewListeners) = Cardinality(ModuleFiles)

\* three modules with one named handler each, one of them next to a falsy
\* export, loaded whole onto a target that had a listener: three new listeners
C11_Witness ==
    /\ pc = "resolved"
    /\ PreferredNamedExport = "*"
    /\ Len(dirFiles) = 3
    /\ \A f \in ModuleFiles : Cardinality(TruthyNamedExports(f)) = 1
    /\ \E f \in ModuleFiles : \E e \in Range(modules[f].exports) : e.falsy
    /\ Cardinality(NewListeners) = 3
    /\ Len(listeners) = 4

\* the registration calls load number n made for event ev
RegsOfLoadFor(n, ev) ==
    {k \in 1..Len(regLog) : regLog[k].src.load = n /\ regLog[k].ev = ev}

\* the listeners of ev the target had before the first load
PreListeners(ev) ==
    {k \in 1..Len(listeners) : ~Loaded(listeners[k].src) /\ listeners[k].ev = ev}

\* C12: the k-th successful load of the same directory registers every handler
\* again: each load makes as many registration calls for an event as the first,
\* and the event's listener count grows by that number each time, so after two
\* loads it is twice what one load added.
C12_EveryLoadRegistersAgain ==
    (pc = "resolved" /\ loads >= 1) =>
        \A k \in 1..Len(regLog) :
            LET ev == regLog[k].ev
                perLoad == Cardinality(RegsOfLoadFor(1, ev))
            IN  /\ \A n \in 1..loads : Cardinality(RegsOfLoadFor(n, ev)) = perLoad
                /\ listenerCount(listeners, ev)
                      = Cardinality(PreListeners(ev)) + loads * perLoad

\* two loads of a directory with two handlers of one event, on a target that
\* had one listener of it: five listeners
C12_Witness ==
    /\ pc = "resolved"
    /\ loads = 2
    /\ Cardinality(PreListeners(Str("ping"))) = 1
    /\ Cardinality(RegsOfLoadFor(1, Str("ping"))) = 2
    /\ listenerCount(listeners, Str("ping")) = 5

\* the extensions the loader is documented to accept
ModuleExtensions ==
    {<<".", "j", "s">>, <<".", "m", "j", "s">>, <<".", "c", "j", "s">>, <<".", "t", "s">>}

HasModuleExtension(file) == \E x \in ModuleExtensions : EndsWith(file, x)

\* C13 (as claimed): import() is called only on entries whose name ends in .js,
\* .mjs, .cjs or .ts; any other entry is passed over, and a directory holding
\* only such entries loads with no error, no import and no registration.
C13_OnlyModuleExtensionsImported ==
    /\ \A k \in 1..Len(importLog) :
          importLog[k].load = loads => HasModuleExtension(dirFiles[importLog[k].i])
    /\ \A i \in 1..Len(fstate) :
          ~HasModuleExtension(dirFiles[i]) => fstate[i] \in {"notStarted", "done"}
    /\ (dirFiles # <<>> /\ \A f \in Range(dirFiles) : ~HasModuleExtension(f)) =>
          /\ pc = "rejected" => error.kind \in {"InvalidDirectory", "InvalidTarget",
                                                "InvalidOptions"}
          /\ importLog = <<>>
          /\ regLog = <<>>

OverrideCallsOf(src) == {k \in 1..Len(ovLog) : ovLog[k].src = src}

\* C14: with an override, every candidate extracted from a module is handed to
\* the override exactly once, with the module's URL and the prepended
\* arguments; the loader validates no candidate and registers nothing, so the
\* target's listeners stay as they were.
C14_OverrideReplacesBinding ==
    override # "none" =>
        /\ regLog = <<>>
        /\ \A k \in 1..Len(listeners) : ~Loaded(listeners[k].src)
        /\ \A i \in 1..Len(ferr) : ferr[i].kind \notin {"MissingProperty", "InvalidType"}
        /\ \A k \in 1..Len(ovLog) :
              /\ ovLog[k].cand = CandOf(ovLog[k].src)
              /\ ovLog[k].file = ovLog[k].src.file
              /\ ovLog[k].pre = Opts.listenerPrependedArgs
              /\ Cardinality(OverrideCallsOf(ovLog[k].src)) = 1
        /\ \A i \in 1..Len(fstate) :
              (fstate[i] = "done" /\ IsModuleFile(dirFiles[i])) =>
                  \A j \in 1..Len(ExportsOfFile(i)) :
                      Cardinality(OverrideCallsOf(SrcOf(i, j))) = 1

\* a resolved load whose override was handed, with two prepended arguments, a
\* candidate that bindEventListener would have refused
C14_Witness ==
    /\ pc = "resolved"
    /\ override # "none"
    /\ listeners = <<>>
    /\ \E k \in 1..Len(ovLog) :
          /\ ValidationError(ovLog[k].cand, Keys, ovLog[k].file) # NoErr
          /\ Len(ovLog[k].pre) = 2

\* the position of a file in the listing
IndexOf(file) == CHOOSE i \in 1..Len(dirFiles) : dirFiles[i] = file

\* C15: in sequential mode, once the loadEventHandler call of a file has
\* failed (import, export lookup, validation or override), no later file of
\* the listing is started, imported or bound, the load cannot resolve, and it
\* rejects with the error of that file.
C15_SequentialStopsAtFirstFailure ==
    (ImportMode = "sequential" /\ Len(fstate) > 0 /\ firstFail # 0) =>
        /\ \A j \in 1..Len(fstate) : j > firstFail => fstate[j] = "notStarted"
        /\ \A k \in 1..Len(importLog) :
              importLog[k].load = loads => importLog[k].i <= firstFail
        /\ \A k \in RegsOfLoad : IndexOf(regLog[k].src.file) <= firstFail
        /\ \A k \in 1..Len(ovLog) : IndexOf(ovLog[k].file) <= firstFail
        /\ pc \in {"running", "rejected"}
        /\ pc = "rejected" => (error = ferr[firstFail] /\ error # NoErr)

\* a sequential load of two modules rejected with the validation error of the
\* first, the second never started
C15_Witness ==
    /\ ImportMode = "sequential"
    /\ pc = "rejected"
    /\ Len(fstate) = 2
    /\ firstFail = 1
    /\ error.kind = "MissingProperty"
    /\ IsModuleFile(dirFiles[2])
    /\ fstate[2] = "notStarted"
    /\ Len(importLog) = 1

\* the other ways a sequential load stops at its first file
C15_StoppedBy(kind) ==
    /\ ImportMode = "sequential"
    /\ pc = "rejected"
    /\ error.kind = kind
    /\ Len(fstate) = 2
    /\ fstate[2] = "notStarted"

C15_StoppedByImport == C15_StoppedBy("ModuleLoad")
C15_StoppedByExport == C15_StoppedBy("ExportNotFound")
C15_StoppedByOverride == C15_StoppedBy("Override")

\* C16 (as claimed): a concurrent load that rejects does so with the error of
\* one of its failed files and only once every file's loadEventHandler call
\* has settled, so that nothing is pending and no listener is registered after
\* the rejection.
C16_RejectsAfterAllSettled ==
    (ImportMode = "concurrent" /\ pc = "rejected" /\ Len(fstate) > 0) =>
        /\ \E i \in 1..Len(fstate) : fstate[i] = "failed" /\ error = ferr[i]
        /\ \A i \in 1..Len(fstate) : Settled(i)

\* the listeners on the target that came from registration call k
ListenersFrom(k) ==
    {n \in 1..Len(listeners) :
        listeners[n].src = regLog[k].src /\ listeners[n].ev = regLog[k].ev}

\* C17: nothing a load registered is taken back: whatever the state of the
\* load, and after it rejected in particular, every registration call made so
\* far still has its listener on the target.
C17_NoRollback ==
    /\ \A k \in 1..Len(regLog) : Cardinality(ListenersFrom(k)) = 1
    /\ pc = "rejected" =>
          Cardinality({n \in 1..Len(listeners) : Loaded(listeners[n].src)}) = Len(regLog)

\* a load rejected by the second candidate of a file, with the listener of its
\* first candidate and the listener of another file still on the target
C17_Witness ==
    /\ pc = "rejected"
    /\ firstFail # 0
    /\ error.kind = "MissingProperty"
    /\ \E n, m \in 1..Len(listeners) :
          /\ listeners[n].src.file = dirFiles[firstFail]
          /\ Loaded(listeners[m].src)
          /\ listeners[m].src.file # dirFiles[firstFail]

\* a string with at least one character
IsNamingString(val) == val.t = "string" /\ val.v # ""

\* the options whose value, defaults merged in, is not one the loader accepts,
\* by the name its error gives them
InvalidOptionNames ==
    (IF Includes(DEFAULT_IMPORT_MODES, Opts.importMode) THEN {} ELSE {"import mode"})
    \cup (IF Includes(DEFAULT_EXPORT_TYPES, Opts.exportType) THEN {} ELSE {"export type"})
    \cup (IF IsNamingString(Opts.preferredNamedExport) THEN {}
          ELSE {"preferred named export"})
    \cup {"preferredEventHandlerKeys " \o role :
             role \in {r \in {"name", "isOnce", "isPrepend", "execute"} :
                          ~IsNamingString(Opts.keys[r])}}

\* C18: with an invalid import mode, export type, preferred export name or key
\* alias, the load never gets to list the directory: it imports nothing,
\* registers nothing, and, the directory and the target being valid, rejects
\* with an invalid-options error that names one of the invalid options.
C18_InvalidOptionRejectsEarly ==
    InvalidOptionNames # {} =>
        /\ pc \in {"idle", "lstat", "rejected"}
        /\ fstate = <<>>
        /\ importLog = <<>>
        /\ regLog = <<>>
        /\ ovLog = <<>>
        /\ listeners = <<>>
        /\ pc = "rejected" =>
              \/ error.kind = "InvalidDirectory" /\ dirKind # "dir"
              \/ error.kind = "InvalidTarget" /\ methods # AllMethods
              \/ /\ error.kind = "InvalidOptions"
                 /\ error.about \in InvalidOptionNames
                 /\ dirKind = "dir"
                 /\ methods = AllMethods

\* a load of a valid directory onto a valid target rejected for its execute
\* alias, the import mode being invalid as well
C18_Witness ==
    /\ pc = "rejected"
    /\ dirKind = "dir"
    /\ error = Err("InvalidOptions", "preferredEventHandlerKeys execute", <<>>)
    /\ InvalidOptionNames = {"import mode", "preferredEventHandlerKeys execute"}
    /\ Opts.keys.execute = Str("")

KeyRoles == {"name", "isOnce", "isPrepend", "execute"}

\* the property name a role is to resolve to: the caller's, or the default,
\* which is the name of the role
ExpectedKey(role) ==
    IF options.kind = "object" /\ options.keys[role] # Absent
    THEN options.keys[role].v ELSE role

ExpectedKeys == [role \in KeyRoles |-> ExpectedKey(role)]

\* every module of the directory can be imported and has the export asked for
ImportsSucceed ==
    \A i \in 1..Len(dirFiles) :
        IsModuleFile(dirFiles[i]) =>
            importModule(modules[dirFiles[i]], ExportType, PreferredNamedExport,
                         dirFiles[i]).err = NoErr

\* candidate j of file i is a valid handler under the expected names
ValidUnderExpectedKeys(i, j) ==
    ValidationError(ExportsOfFile(i)[j].cand, ExpectedKeys, dirFiles[i]) = NoErr

\* the candidates the load extracts, as pairs of file and candidate index
Extracted ==
    {p \in (1..Len(dirFiles)) \X (1..3) :
        IsModuleFile(dirFiles[p[1]]) /\ p[2] <= Len(ExportsOfFile(p[1]))}

\* C19: the key alias map is merged over the defaults role by role: a role the
\* caller leaves out resolves to its default name, a role the caller names
\* keeps that name, and handlers shaped by the resulting names load: with the
\* omitted roles' handlers default-shaped the load does not reject.
C19_KeysMergedOverDefaults ==
    (/\ options.kind = "object"
     /\ \A role \in KeyRoles : options.keys[role] = Absent \/ IsNamingString(options.keys[role])
     /\ InvalidOptionNames = {}
     /\ dirKind = "dir" /\ methods = AllMethods /\ override = "none" /\ dirFiles # <<>>) =>
        /\ \A role \in KeyRoles : Keys[role] = ExpectedKey(role)
        /\ (ImportsSucceed /\ \A p \in Extracted : ValidUnderExpectedKeys(p[1], p[2])) =>
              /\ pc # "rejected"
              /\ \A i \in 1..Len(fstate) : fstate[i] # "failed"
              /\ pc = "resolved" =>
                    \A p \in Extracted : Cardinality(RegsOf(SrcOf(p[1], p[2]))) = 1
        /\ (\E p \in Extracted : ~ValidUnderExpectedKeys(p[1], p[2])) => pc # "resolved"

\* a default-shaped handler loaded with a key alias map that leaves out name
\* and isPrepend and names the two other roles
C19_Witness ==
    /\ pc = "resolved"
    /\ options.keys = [name |-> Absent, isOnce |-> Str("isOnce"), isPrepend |-> Absent,
                       execute |-> Str("execute")]
    /\ dirFiles = <<FileA>>
    /\ Len(regLog) = 1
    /\ regLog[1].ev = Str("ping")

\* a handler that keeps its function under "run", loaded with execute named so
C19_CustomNameReached ==
    /\ pc = "resolved"
    /\ Keys = [name |-> "name", isOnce |-> "isOnce", isPrepend |-> "isPrepend",
               execute |-> "run"]
    /\ dirFiles = <<FileR>>
    /\ Len(regLog) = 1

\* C20 (as claimed): an options argument that is null, an array or a
\* primitive makes the load reject with an invalid-options error before the
\* directory is listed, and nothing is imported or registered.
C20_NonObjectOptionsRejected ==
    options.kind \in {"null", "array", "primitive"} =>
        /\ pc \in {"idle", "lstat", "rejected"}
        /\ (pc = "rejected" /\ dirKind = "dir" /\ methods = AllMethods) =>
              error.kind = "InvalidOptions"
        /\ importLog = <<>>
        /\ regLog = <<>>
        /\ ovLog = <<>>

\* the export a load asks of each module, when it asks for one
AskedExport == IF ExportType = "named" THEN PreferredNamedExport ELSE DEFAULT_EXPORT_NAME

\* the module of a file has an export of that name with a truthy value
HasExport(file, exportName) ==
    \E e \in Range(modules[file].exports) : e.name = exportName /\ ~e.falsy

\* the registration calls the current load made for a file
RegsOfFile(file) == {k \in RegsOfLoad : regLog[k].src.file = file}

\* C21: a load that asks for the default export, or for one named export other
\* than "*", binds from each module that export and no other; a module without
\* it (or with a falsy value under it) fails with an export-not-found error
\* naming the export, the load cannot resolve, and nothing of that module is
\* bound.
C21_ExactlyTheAskedExport ==
    (override = "none" /\ ~(ExportType = "named" /\ PreferredNamedExport = "*")) =>
        \A i \in 1..Len(fstate) :
            (Settled(i) /\ IsModuleFile(dirFiles[i]) /\ modules[dirFiles[i]].loads) =>
                IF HasExport(dirFiles[i], AskedExport)
                THEN /\ ferr[i].kind # "ExportNotFound"
                     /\ \A k \in RegsOfFile(dirFiles[i]) : regLog[k].src.export = AskedExport
                     /\ fstate[i] = "done" => Cardinality(RegsOfFile(dirFiles[i])) = 1
                ELSE /\ fstate[i] = "failed"
                     /\ ferr[i] = Err("ExportNotFound", AskedExport, dirFiles[i])
                     /\ RegsOfFile(dirFiles[i]) = {}
                     /\ pc # "resolved"

\* a load asking for the export "zeta" of two modules: the one that has it was
\* bound through it, the other failed and the load rejected
C21_Witness ==
    /\ pc = "rejected"
    /\ AskedExport = "zeta"
    /\ Len(fstate) = 2
    /\ \E i, j \in 1..2 :
          /\ fstate[i] = "done"
          /\ \E k \in RegsOfFile(dirFiles[i]) : regLog[k].src.export = "zeta"
          /\ fstate[j] = "failed"
          /\ ferr[j].kind = "ExportNotFound"
          /\ RegsOfFile(dirFiles[j]) = {}

\* C22 (as claimed): under the named policy the preferred name "default" is
\* refused: every module fails with an export-not-found error, those that
\* have a default export included, and no default export is ever bound.
C22_NamedDefaultRefused ==
    (ExportType = "named" /\ PreferredNamedExport = DEFAULT_EXPORT_NAME) =>
        /\ \A k \in 1..Len(regLog) : regLog[k].src.export # DEFAULT_EXPORT_NAME
        /\ \A k \in 1..Len(ovLog) : ovLog[k].src.export # DEFAULT_EXPORT_NAME
        /\ \A i \in 1..Len(fstate) :
              (Settled(i) /\ IsModuleFile(dirFiles[i]) /\ modules[dirFiles[i]].loads) =>
                  fstate[i] = "failed" /\ ferr[i].kind = "ExportNotFound"
        /\ pc # "resolved"

\* the module of a file has a default export and no named export with a value
DefaultExportOnly(file) ==
    /\ modules[file].loads
    /\ HasExport(file, DEFAULT_EXPORT_NAME)
    /\ TruthyNamedExports(file) = {}

\* C23 (as claimed): a load with export type "named" and preferred export "*"
\* of a directory whose modules have a default export and no named handler
\* does not resolve but rejects, and never takes a default export as candidate.
C23_DefaultOnlyModulesRejected ==
    (/\ ExportType = "named"
     /\ PreferredNamedExport = "*"
     /\ ModuleFiles # {}
     /\ \A f \in ModuleFiles : DefaultExportOnly(f)) =>
        /\ pc # "resolved"
        /\ (pc = "running" /\ \A i \in 1..Len(fstate) : Settled(i)) => firstFail # 0
        /\ \A k \in 1..Len(regLog) : regLog[k].src.export # DEFAULT_EXPORT_NAME

\* C24 (as claimed): the import mode "parallel" is accepted like "sequential":
\* a load of valid handlers called with either is not refused for its
\* options, resolves, and registers each handler once.
C24_ParallelModeAccepted ==
    (/\ options.kind = "object"
     /\ options.importMode \in {Str("parallel"), Str("sequential")}
     /\ InvalidOptionNames \subseteq {"import mode"}
     /\ dirKind = "dir" /\ methods = AllMethods /\ override = "none" /\ dirFiles # <<>>
     /\ ImportsSucceed
     /\ \A p \in Extracted : ValidUnderExpectedKeys(p[1], p[2])) =>
        /\ pc # "rejected"
        /\ pc = "resolved" =>
              \A p \in Extracted : Cardinality(RegsOf(SrcOf(p[1], p[2]))) = 1

\* the module files in subdirectories of the directory
NestedModuleFiles == {f \in DOMAIN modules : f \notin Range(dirFiles) /\ IsModuleFile(f)}

\* C25 (as claimed): a resolved load has registered the handlers of the module
\* files in subdirectories when the recursive-scan option is true, and none
\* of them when it is false or left out.
C25_RecursiveScanLoadsNested ==
    (pc = "resolved" /\ override = "none") =>
        \A f \in NestedModuleFiles :
            IF options.isRecursive = True
            THEN RegsOfFile(f) # {}
            ELSE RegsOfFile(f) = {}

\* C26: an override declared asynchronous is awaited for each candidate.  In
\* sequential mode a call of the override starts only when every earlier call
\* has completed, so the only call that can be pending is the last one made;
\* in either mode the load does not resolve while a call is pending, and a
\* load whose override rejects never resolves after calling it.
C26_AsyncOverrideAwaited ==
    override \in {"async", "asyncReject"} =>
        /\ ImportMode = "sequential" => \A k \in ovPending : k = Len(ovLog)
        /\ pc = "resolved" => ovPending = {}
        /\ (override = "asyncReject" /\ pc = "resolved") => ovLog = <<>>

\* a sequential load resolved after awaiting calls for candidates of two files
C26_Witness ==
    /\ override = "async"
    /\ ImportMode = "sequential"
    /\ pc = "resolved"
    /\ Len(ovLog) >= 3
    /\ \E j, k \in 1..Len(ovLog) : ovLog[j].src.file # ovLog[k].src.file

\* C27: the listener never swallows a failure of execute.  A call of a loaded
\* handler whose execute throws ends as a throw, which the emission passes on;
\* a call whose execute rejects ends as a rejected promise; neither ever
\* completes normally.
C27_FailuresPropagate ==
    \A k \in 1..Len(calls) :
        Loaded(calls[k].src) =>
            LET executeMethod == Get(CandOf(calls[k].src), Keys.execute)
            IN  /\ executeMethod.v = "syncThrow" =>
                      calls[k].outcome = "threw" /\ emits[calls[k].emit].threw
                /\ executeMethod.v = "asyncReject" => calls[k].outcome = "rejected"
                /\ executeMethod.v \in {"syncThrow", "asyncReject"} =>
                      calls[k].outcome \notin {"returned", "resolved"}

\* one emission reached a handler whose execute throws, another a handler
\* whose execute rejects
C27_Witness ==
    \E j, k \in 1..Len(calls) :
        /\ Loaded(calls[j].src) /\ Loaded(calls[k].src)
        /\ Get(CandOf(calls[j].src), Keys.execute).v = "syncThrow"
        /\ Get(CandOf(calls[k].src), Keys.execute).v = "asyncReject"

\* the place of an export in the enumeration of its module's namespace
ExportPlace(src) ==
    CHOOSE n \in 1..Len(modules[src.file].exports) :
        modules[src.file].exports[n].name = src.export

\* C28: in concurrent mode without an override the registration calls made for
\* one file are never interleaved with those of another file: they form a
\* contiguous block of the registration sequence, in the order in which the
\* module's namespace enumerates its exports.
C28_FileRegistrationsContiguous ==
    (Len(regLog) > 0 /\ override = "none" /\ ImportMode = "concurrent") =>
        /\ \A a, b, c \in 1..Len(regLog) :
              (a < b /\ b < c /\ regLog[a].src.file = regLog[c].src.file
                     /\ regLog[a].src.load = regLog[c].src.load) =>
                  regLog[b].src.file = regLog[a].src.file
        /\ \A a, b \in 1..Len(regLog) :
              (a < b /\ regLog[a].src.file = regLog[b].src.file
                     /\ regLog[a].src.load = regLog[b].src.load) =>
                  ExportPlace(regLog[a].src) < ExportPlace(regLog[b].src)

\* a concurrent load whose second file was imported and bound first, one of
\* the two files having two candidates
C28_Witness ==
    /\ override = "none"
    /\ ImportMode = "concurrent"
    /\ pc = "resolved"
    /\ Len(dirFiles) = 2
    /\ Len(regLog) >= 3
    /\ regLog[1].src.file = dirFiles[2]
    /\ regLog[Len(regLog)].src.file = dirFiles[1]

\* file i can be loaded: it is skipped, or its import yields candidates that all
\* pass bindEventListener, or that an override accepts
BindableFile(i) ==
    IsModuleFile(dirFiles[i]) =>
        /\ importModule(modules[dirFiles[i]], ExportType, PreferredNamedExport,
                        dirFiles[i]).err = NoErr
        /\ IF override = "none"
           THEN \A j \in 1..Len(ExportsOfFile(i)) :
                    ValidationError(ExportsOfFile(i)[j].cand, Keys, dirFiles[i]) = NoErr
           ELSE ExportsOfFile(i) = <<>> \/ override \notin {"syncThrow", "asyncReject"}

\* whether a load of these inputs can succeed, whatever the import mode
LoadCanSucceed ==
    /\ PrecheckError(dirKind, methods, options) = NoErr
    /\ dirFiles # <<>>
    /\ \A i \in 1..Len(dirFiles) : BindableFile(i)

\* a registration call as the comparison of two loads sees it
Registration(src, call) ==
    [file |-> src.file, export |-> src.export, ev |-> call.ev, method |-> call.method,
     exec |-> call.exec]

\* the registrations a load of these inputs makes, whatever the import mode
ExpectedRegistrations ==
    IF override # "none" THEN {}
    ELSE {Registration([file |-> dirFiles[p[1]],
                        export |-> ExportsOfFile(p[1])[p[2]].name],
                       RegistrationCall(ExportsOfFile(p[1])[p[2]].cand, Keys,
                                        Opts.listenerPrependedArgs, <<>>)) :
            p \in Extracted}

MadeRegistrations == {Registration(regLog[k].src, regLog[k]) : k \in RegsOfLoad}

\* C29: what a load registers and whether it succeeds do not depend on the
\* import mode.  A load that resolved, in either mode, has made exactly the
\* registration calls (event name, method, execute) that the directory, target
\* and remaining options determine, each once, and such a load resolves only if
\* those inputs allow it and rejects only if they do not.
C29_SameOutcomeInBothModes ==
    /\ pc = "resolved" =>
          /\ LoadCanSucceed
          /\ MadeRegistrations = ExpectedRegistrations
          /\ Cardinality(RegsOfLoad) = Cardinality(ExpectedRegistrations)
    /\ pc = "rejected" => ~LoadCanSucceed

\* a concurrent load that resolved after binding its second file first, an
\* order the sequential mode never produces, with the same registrations
C29_Witness ==
    /\ pc = "resolved"
    /\ ImportMode = "concurrent"
    /\ Len(dirFiles) = 2
    /\ Cardinality(RegsOfLoad) >= 2
    /\ regLog[1].src.file = dirFiles[2]
    /\ MadeRegistrations = ExpectedRegistrations

\* C30 (as claimed): the event name of every registration call is the
\* handler's name value itself: a handler named by a symbol is registered
\* under that symbol, a handler named by a string under that string.
C30_NameRegisteredUnchanged ==
    \A k \in 1..Len(regLog) :
        LET nameValue == Get(CandOf(regLog[k].src), Keys.name)
        IN  TypeOf(nameValue) \in {"string", "symbol"} => regLog[k].ev = nameValue

====
